---- MODULE Spec2Model ----
(***************************************************************************)
(* project_aggregator: the ignore-rule engine (logic.py) and the command   *)
(* that drives it (main.py).                                               *)
(*                                                                         *)
(* A file name is a sequence of one-character strings, a relative path is  *)
(* a sequence of names, and as_posix joins the names with "/".  The        *)
(* filesystem under the root is the set of its regular files; a directory  *)
(* exists when a file lies beneath it.                                     *)
(***************************************************************************)
EXTENDS Integers, Sequences, FiniteSets, TLC

(***************************************************************************)
(* Characters, in code-point order.                                        *)
(***************************************************************************)
Alphabet ==
    << " ", "!", "#", "*", "-", ".", "/", "?",
       "A", "B", "C", "D", "E", "F", "G", "H", "I", "J", "K", "L", "M",
       "N", "O", "P", "Q", "R", "S", "T", "U", "V", "W", "X", "Y", "Z",
       "[", "]",
       "a", "b", "c", "d", "e", "f", "g", "h", "i", "j", "k", "l", "m",
       "n", "o", "p", "q", "r", "s", "t", "u", "v", "w", "x", "y", "z" >>

Chars == { Alphabet[i] : i \in 1..Len(Alphabet) }

OrdTable == [ c \in Chars |-> CHOOSE i \in 1..Len(Alphabet) : Alphabet[i] = c ]

\* ord(c): the rank of the character in code-point order
Ord(c) == OrdTable[c]

LowerTable ==
    [ c \in Chars |->
        IF OrdTable[c] >= OrdTable["A"] /\ OrdTable[c] <= OrdTable["Z"]
        THEN Alphabet[OrdTable[c] - OrdTable["A"] + OrdTable["a"]]
        ELSE c ]

\* str.lower() without case folding: the mutant of lower
lower_identity(s) == s

\* str.lower()
lower(s) == [ i \in 1..Len(s) |-> LowerTable[s[i]] ]

\* str.__lt__: lexicographic on code points, a proper prefix is smaller
RECURSIVE StrLess(_, _)
StrLess(s, t) ==
    IF t = << >> THEN FALSE
    ELSE IF s = << >> THEN TRUE
    ELSE IF s[1] # t[1] THEN Ord(s[1]) < Ord(t[1])
    ELSE StrLess(Tail(s), Tail(t))

StrLeq(s, t) == s = t \/ StrLess(s, t)

\* str.split(sep): the segments between the separators, empty ones kept
RECURSIVE SplitFrom(_, _, _)
SplitFrom(s, sep, cur) ==
    IF s = << >> THEN << cur >>
    ELSE IF s[1] = sep THEN << cur >> \o SplitFrom(Tail(s), sep, << >>)
    ELSE SplitFrom(Tail(s), sep, Append(cur, s[1]))

Split(s, sep) == SplitFrom(s, sep, << >>)

\* sep.join(parts)
RECURSIVE Join(_, _)
Join(parts, sep) ==
    IF parts = << >> THEN << >>
    ELSE IF Len(parts) = 1 THEN parts[1]
    ELSE parts[1] \o << sep >> \o Join(Tail(parts), sep)

\* PurePath.as_posix(): the names joined by "/"
as_posix(path) == Join(path, "/")

\* the segments of a posix string that name something (Path(...) parsing)
PathOf(str) == SelectSeq(Split(str, "/"), LAMBDA seg : seg # << >> /\ seg # << "." >>)

DropFirst(s, k) == SubSeq(s, k + 1, Len(s))

(***************************************************************************)
(* pathspec, 'gitwildmatch': a pattern line compiled to a rule, and        *)
(* PathSpec.match_file.                                                    *)
(***************************************************************************)
DoubleStar == << "*", "*" >>

\* one path segment against one glob segment: "*" any run, "?" any one
RECURSIVE SegMatch(_, _)
SegMatch(pat, name) ==
    IF pat = << >> THEN name = << >>
    ELSE IF pat[1] = "*"
         THEN \E k \in 0..Len(name) : SegMatch(Tail(pat), DropFirst(name, k))
    ELSE IF name = << >> THEN FALSE
    ELSE IF pat[1] = "?" THEN SegMatch(Tail(pat), Tail(name))
    ELSE pat[1] = name[1] /\ SegMatch(Tail(pat), Tail(name))

\* GitWildMatchPattern.pattern_to_regex, the normalisation of the segments:
\* a leading "/" anchors to the root, a pattern with no inner "/" matches at
\* any depth, and a trailing "/" stands for "/**"
NormalizeSegs(body) ==
    LET segs == Split(body, "/")
        anchored ==
            IF segs[1] = << >> THEN Tail(segs)
            ELSE IF Len(segs) = 1 \/ (Len(segs) = 2 /\ segs[2] = << >>)
                 THEN IF segs[1] = DoubleStar THEN segs ELSE << DoubleStar >> \o segs
            ELSE segs
    IN  IF Len(anchored) > 1 /\ anchored[Len(anchored)] = << >>
        THEN [ anchored EXCEPT ![Len(anchored)] = DoubleStar ]
        ELSE anchored

\* GitWildMatchPattern(line): the compiled rule; include is "none" for a
\* line that is no pattern (a comment, an empty line, a lone "/")
CompileRule(line) ==
    IF line = << >> \/ line[1] = "#" \/ line = << "/" >>
    THEN [ pattern |-> line, include |-> "none", segs |-> << >> ]
    ELSE IF line[1] = "!"
    THEN [ pattern |-> line, include |-> "no", segs |-> NormalizeSegs(Tail(line)) ]
    ELSE [ pattern |-> line, include |-> "yes", segs |-> NormalizeSegs(line) ]

\* GitWildMatchPattern.pattern_to_regex raises GitWildMatchPatternError for a
\* line that leaves no segment after the normalisation, such as a lone "!"
raises_pattern_error(line) ==
    /\ line # << >>
    /\ line[1] # "#"
    /\ line # << "/" >>
    /\ NormalizeSegs(IF line[1] = "!" THEN Tail(line) ELSE line) = << >>

\* PathSpec.from_lines('gitwildmatch', lines): the rules in the order of the
\* lines
from_lines(lines) == [ i \in 1..Len(lines) |-> CompileRule(lines[i]) ]

\* the regular expression of a rule, read over the segments of the path
RECURSIVE RegexMatch(_, _, _)
RegexMatch(segs, parts, first) ==
    IF segs = << >> THEN parts = << >>
    ELSE IF segs[1] = DoubleStar
    THEN IF Len(segs) = 1
         THEN \* a sole "**" matches every path; a closing "**" is "/.*",
              \* which needs a "/" and so one more segment
              parts # << >>
         ELSE \E k \in 0..Len(parts) :
                 RegexMatch(Tail(segs), DropFirst(parts, k), FALSE)
    ELSE /\ parts # << >>
         /\ SegMatch(segs[1], parts[1])
         /\ IF Len(segs) = 1 THEN TRUE
            ELSE RegexMatch(Tail(segs), Tail(parts), FALSE)

RuleMatches(rule, path_str) ==
    /\ rule.include # "none"
    /\ rule.segs # << >>
    /\ RegexMatch(rule.segs, Split(path_str, "/"), TRUE)

\* first matching rule wins: the mutant of match_file
RECURSIVE match_file_first(_, _)
match_file_first(patterns, path_str) ==
    IF patterns = << >> THEN FALSE
    ELSE IF RuleMatches(patterns[1], path_str)
         THEN patterns[1].include = "yes"
    ELSE match_file_first(Tail(patterns), path_str)

\* PathSpec.match_file: every rule in order, each match overwrites the verdict
RECURSIVE MatchLoop(_, _, _)
MatchLoop(patterns, path_str, matched) ==
    IF patterns = << >> THEN matched
    ELSE MatchLoop(Tail(patterns), path_str,
                   IF RuleMatches(patterns[1], path_str)
                   THEN patterns[1].include = "yes"
                   ELSE matched)

match_file(patterns, path_str) == MatchLoop(patterns, path_str, FALSE)

(***************************************************************************)
(* The filesystem under the root.                                          *)
(***************************************************************************)
Prefixes(path) == { SubSeq(path, 1, k) : k \in 1..(Len(path) - 1) }

\* the directories under the root: what lies above some file
DirsOf(fs) == UNION { Prefixes(f) : f \in fs }

EntriesOf(fs) == fs \cup DirsOf(fs)

is_file(fs, path) == path \in fs

is_dir(fs, path) == path \in DirsOf(fs)

\* the root is the empty path
ChildrenOf(fs, dir) ==
    { e \in EntriesOf(fs) : Len(e) = Len(dir) + 1 /\ SubSeq(e, 1, Len(dir)) = dir }

Basename(path) == path[Len(path)]

\* tuple.__lt__ over the parts of two paths: PurePath.__lt__
RECURSIVE PartsLess(_, _)
PartsLess(p, q) ==
    IF q = << >> THEN FALSE
    ELSE IF p = << >> THEN TRUE
    ELSE IF p[1] # q[1] THEN StrLess(p[1], q[1])
    ELSE PartsLess(Tail(p), Tail(q))

\* a set as a sequence, smallest path first
RECURSIVE AscendingSeq(_)
AscendingSeq(S) ==
    IF S = {} THEN << >>
    ELSE LET m == CHOOSE x \in S : \A y \in S : x = y \/ PartsLess(x, y)
         IN  << m >> \o AscendingSeq(S \ {m})

Reverse(s) == [ i \in 1..Len(s) |-> s[Len(s) + 1 - i] ]

\* the orders in which the operating system may enumerate a directory
EnumOrders == { "ascending", "descending" }

\* Path.iterdir() / os.scandir: the entries of a directory in the order the
\* operating system gives them
iterdir(fs, dir, order) ==
    IF order = "ascending"
    THEN AscendingSeq(ChildrenOf(fs, dir))
    ELSE Reverse(AscendingSeq(ChildrenOf(fs, dir)))

(***************************************************************************)
(* logic.py: parse_ignore_file and load_combined_ignore_spec.              *)
(* An ignore file is a record: present, readable, and its lines.           *)
(***************************************************************************)
RECURSIVE LStrip(_)
LStrip(s) == IF s # << >> /\ s[1] = " " THEN LStrip(Tail(s)) ELSE s

\* str.strip()
Strip(s) == Reverse(LStrip(Reverse(LStrip(s))))

NoSpec == << >>

\* parse_ignore_file: the PathSpec of the stripped non-blank lines; None when
\* the file is absent, cannot be read, or holds no such line, and None when
\* from_lines raises for one of the lines (except Exception: a warning)
parse_ignore_file(file) ==
    IF ~file.present THEN NoSpec
    ELSE IF ~file.readable THEN NoSpec
    ELSE LET read_lines ==
                 SelectSeq([ i \in 1..Len(file.lines) |-> Strip(file.lines[i]) ],
                           LAMBDA line : line # << >>)
         IN  IF read_lines = << >> THEN NoSpec
             ELSE IF \E i \in 1..Len(read_lines) : raises_pattern_error(read_lines[i])
             THEN NoSpec
             ELSE from_lines(read_lines)

\* [p.pattern for p in spec.patterns]: the pattern strings of a PathSpec
patterns_str(spec) == [ i \in 1..Len(spec) |-> spec[i].pattern ]

GitDirRule == << ".", "g", "i", "t", "/" >>

\* the rules of .pagrignore ahead of the rules of .gitignore: the mutant of
\* load_combined_ignore_spec
load_pagrignore_first(gitignore_file, pagrignore_file) ==
    from_lines(<< GitDirRule >>
               \o patterns_str(parse_ignore_file(pagrignore_file))
               \o patterns_str(parse_ignore_file(gitignore_file)))

\* load_combined_ignore_spec: '.git/', then .gitignore, then .pagrignore
load_combined_ignore_spec(gitignore_file, pagrignore_file) ==
    LET gitignore_patterns_str == patterns_str(parse_ignore_file(gitignore_file))
        pagrignore_patterns_str == patterns_str(parse_ignore_file(pagrignore_file))
        all_pattern_strings ==
            << GitDirRule >> \o gitignore_patterns_str \o pagrignore_patterns_str
    IN  from_lines(all_pattern_strings)

(***************************************************************************)
(* logic.py: generate_tree.  A line is a record of its prefix (the         *)
(* continuation glyphs), its pointer glyph and its display name; path      *)
(* remembers the entry the line was written for.  The box-drawing glyphs   *)
(* are written in ASCII: Branch, Corner, Pipe.                             *)
(***************************************************************************)
Branch == "|-- "
Corner == "+-- "
Pipe   == "|   "
Blank  == "    "

\* the sort key of generate_tree: (p.is_file(), p.name.lower())
tree_sort_key(fs, item) == << is_file(fs, item), lower(Basename(item)) >>

\* tuple.__lt__ on two keys: False sorts before True, then the names
KeyLess(a, b) ==
    IF a[1] # b[1] THEN b[1] ELSE StrLess(a[2], b[2])

\* sorted(items, key=...): stable, an entry goes behind every entry whose key
\* is not greater
RECURSIVE InsertByKey(_, _, _)
InsertByKey(fs, item, done) ==
    IF done = << >> THEN << item >>
    ELSE IF KeyLess(tree_sort_key(fs, item), tree_sort_key(fs, done[1]))
         THEN << item >> \o done
    ELSE << done[1] >> \o InsertByKey(fs, item, Tail(done))

RECURSIVE sorted_items(_, _)
sorted_items(fs, items) ==
    IF items = << >> THEN << >>
    ELSE InsertByKey(fs, items[Len(items)],
                     sorted_items(fs, SubSeq(items, 1, Len(items) - 1)))

RootLine ==
    [ kind |-> "root", prefix |-> << >>, pointer |-> "", name |-> << "/" >>,
      path |-> << >> ]

ErrorLine(dir, prefix) ==
    [ kind |-> "error", prefix |-> prefix, pointer |-> Corner,
      name |-> << "[", "E", "r", "r", "o", "r", "]" >>, path |-> dir ]

EntryLine(fs, item, prefix, pointer) ==
    [ kind |-> "entry", prefix |-> prefix, pointer |-> pointer,
      name |-> Basename(item) \o (IF is_dir(fs, item) THEN << "/" >> ELSE << >>),
      path |-> item ]

\* the loop that keeps the entries match_file does not ignore
tree_filter(fs, patterns, items) ==
    SelectSeq(items, LAMBDA item : ~match_file(patterns, as_posix(item)))

RECURSIVE build_tree_recursive(_, _, _, _, _, _)
RECURSIVE RenderItems(_, _, _, _, _, _, _)

\* the loop with the continuation "|   " under every directory, the last one
\* too: the mutant of RenderItems
RECURSIVE RenderItemsPiped(_, _, _, _, _, _, _)
RenderItemsPiped(fs, patterns, unlistable, order, filtered_items, i, prefix) ==
    IF i > Len(filtered_items) THEN << >>
    ELSE LET item == filtered_items[i]
             pointer == IF i < Len(filtered_items) THEN Branch ELSE Corner
         IN  << EntryLine(fs, item, prefix, pointer) >>
             \o (IF is_dir(fs, item)
                 THEN build_tree_recursive(fs, patterns, unlistable, order, item,
                                           Append(prefix, Pipe))
                 ELSE << >>)
             \o RenderItemsPiped(fs, patterns, unlistable, order, filtered_items,
                                 i + 1, prefix)

\* the loop over zip(pointers, filtered_items), from the i-th item on
RenderItems(fs, patterns, unlistable, order, filtered_items, i, prefix) ==
    IF i > Len(filtered_items) THEN << >>
    ELSE LET item == filtered_items[i]
             pointer == IF i < Len(filtered_items) THEN Branch ELSE Corner
             extension == IF pointer = Branch THEN Pipe ELSE Blank
         IN  << EntryLine(fs, item, prefix, pointer) >>
             \o (IF is_dir(fs, item)
                 THEN build_tree_recursive(fs, patterns, unlistable, order, item,
                                           Append(prefix, extension))
                 ELSE << >>)
             \o RenderItems(fs, patterns, unlistable, order, filtered_items,
                            i + 1, prefix)

\* a failed listing that leaves no line behind: the mutant of
\* build_tree_recursive
build_tree_silent(fs, patterns, unlistable, order, current_dir, prefix) ==
    IF current_dir \in unlistable
    THEN << >>
    ELSE LET items == sorted_items(fs, iterdir(fs, current_dir, order))
             filtered_items == tree_filter(fs, patterns, items)
         IN  RenderItems(fs, patterns, unlistable, order, filtered_items, 1, prefix)

\* _build_tree_recursive(current_dir, prefix): the lines it appends
build_tree_recursive(fs, patterns, unlistable, order, current_dir, prefix) ==
    IF current_dir \in unlistable
    THEN << ErrorLine(current_dir, prefix) >>
    ELSE LET items == sorted_items(fs, iterdir(fs, current_dir, order))
             filtered_items == tree_filter(fs, patterns, items)
         IN  RenderItems(fs, patterns, unlistable, order, filtered_items, 1, prefix)

\* generate_tree: the root line, then the lines of the walk (the join keeps
\* them one per line, in this order)
generate_tree(fs, patterns, unlistable, order) ==
    << RootLine >> \o build_tree_recursive(fs, patterns, unlistable, order, << >>, << >>)

(***************************************************************************)
(* logic.py: scan_and_filter_files.                                        *)
(***************************************************************************)
\* root_dir.rglob('*'): every entry beneath the root
rglob_all(fs) == AscendingSeq(EntriesOf(fs))

\* the loop: a regular file that match_file does not ignore is added
RECURSIVE ScanLoop(_, _, _, _)
ScanLoop(fs, patterns, items, included_files) ==
    IF items = << >> THEN included_files
    ELSE LET item == items[1]
             keep == /\ is_file(fs, item)
                     /\ ~match_file(patterns, as_posix(item))
         IN  ScanLoop(fs, patterns, Tail(items),
                      IF keep THEN included_files \cup { item } ELSE included_files)

\* a list in the order of the posix strings: the mutant of sorted_paths
RECURSIVE sorted_by_string(_)
sorted_by_string(S) ==
    IF S = {} THEN << >>
    ELSE LET m == CHOOSE x \in S :
                    \A y \in S : x = y \/ StrLess(as_posix(x), as_posix(y))
         IN  << m >> \o sorted_by_string(S \ {m})

\* sorted(list(included_files)): Path objects compare by their parts
sorted_paths(S) == AscendingSeq(S)

scan_and_filter_files(fs, patterns) ==
    sorted_paths(ScanLoop(fs, patterns, rglob_all(fs), {}))

(***************************************************************************)
(* logic.py: aggregate_codes.  What happened to a file after it was        *)
(* listed is a fault: "gone" (removed: is_file() is false), "vanishing"    *)
(* (removed between is_file() and read_text()), "denied" (PermissionError) *)
(* or "ioerror" (any other exception of read_text()).                      *)
(***************************************************************************)
NoFault == [ path |-> << >>, kind |-> "none" ]

FaultKinds == { "gone", "vanishing", "denied", "ioerror" }

FaultOf(flt, path) == IF flt.path = path THEN flt.kind ELSE "none"

\* PurePath.suffix: from the last dot, unless the dot opens or closes the name
suffix(name) ==
    LET dots == { j \in 1..Len(name) : name[j] = "." }
        last == CHOOSE j \in dots : \A k \in dots : k <= j
    IN  IF dots # {} /\ 1 < last /\ last < Len(name)
        THEN SubSeq(name, last, Len(name))
        ELSE << >>

\* the hint of the opening fence: the lowered suffix without its dot
language_hint(relative_path) ==
    LET sfx == lower(suffix(Basename(relative_path)))
    IN  IF sfx # << >> THEN Tail(sfx) ELSE << >>

ContentBlock(relative_path) ==
    [ header |-> as_posix(relative_path), kind |-> "content",
      fence |-> language_hint(relative_path), body |-> "content" ]

ErrorBlock(relative_path, notice) ==
    [ header |-> as_posix(relative_path), kind |-> "error",
      fence |-> << >>, body |-> notice ]

\* one pass of the loop body: the blocks it appends for one path
aggregate_one(fs, flt, relative_path) ==
    LET what == FaultOf(flt, relative_path)
    IN  IF ~is_file(fs, relative_path) \/ what = "gone"
        THEN << >>
        ELSE IF what = "vanishing"
        THEN << ErrorBlock(relative_path, "[Error: File disappeared since scanning]") >>
        ELSE IF what = "denied"
        THEN << ErrorBlock(relative_path, "[Error: Permission denied reading file]") >>
        ELSE IF what = "ioerror"
        THEN << ErrorBlock(relative_path, "[Error reading file]") >>
        ELSE << ContentBlock(relative_path) >>

\* aggregate_codes: the blocks in input order (the join puts the separator
\* between them)
RECURSIVE aggregate_codes(_, _, _)
aggregate_codes(fs, flt, relative_paths) ==
    IF relative_paths = << >> THEN << >>
    ELSE aggregate_one(fs, flt, relative_paths[1])
         \o aggregate_codes(fs, flt, Tail(relative_paths))

(***************************************************************************)
(* main.py: validate_paths.  Path.rglob(pattern) is the glob of "**"       *)
(* followed by the parts of the pattern; a part is matched with fnmatch    *)
(* ("*", "?", and a bracket expression of single characters).              *)
(***************************************************************************)
\* the index of the "]" closing a bracket expression opened at pat[1], or 0
ClassEnd(pat) ==
    LET ends == { j \in 3..Len(pat) : pat[j] = "]" }
    IN  IF ends = {} THEN 0 ELSE CHOOSE j \in ends : \A k \in ends : j <= k

\* fnmatch.translate on one path part
RECURSIVE fnmatch(_, _)
fnmatch(pat, name) ==
    IF pat = << >> THEN name = << >>
    ELSE IF pat[1] = "*"
         THEN \E k \in 0..Len(name) : fnmatch(Tail(pat), DropFirst(name, k))
    ELSE IF name = << >> THEN FALSE
    ELSE IF pat[1] = "?" THEN fnmatch(Tail(pat), Tail(name))
    ELSE IF pat[1] = "[" /\ ClassEnd(pat) # 0
         THEN LET j == ClassEnd(pat)
                  negated == pat[2] = "!"
                  members == { pat[k] : k \in (IF negated THEN 3 ELSE 2)..(j - 1) }
              IN  /\ (name[1] \in members) # negated
                  /\ fnmatch(DropFirst(pat, j), Tail(name))
    ELSE pat[1] = name[1] /\ fnmatch(Tail(pat), Tail(name))

\* a directory and every directory beneath it
DirsFrom(fs, dir) ==
    { dir } \cup { d \in DirsOf(fs) : Len(d) > Len(dir) /\ SubSeq(d, 1, Len(dir)) = dir }

\* the selectors of pathlib: the entries reached from dir along the parts
RECURSIVE GlobFrom(_, _, _)
GlobFrom(fs, dir, parts) ==
    IF parts = << >> THEN { dir }
    ELSE IF parts[1] = DoubleStar
    THEN UNION { GlobFrom(fs, d, Tail(parts)) : d \in DirsFrom(fs, dir) }
    ELSE UNION { GlobFrom(fs, c, Tail(parts)) :
                   c \in { e \in ChildrenOf(fs, dir) :
                             /\ fnmatch(parts[1], Basename(e))
                             /\ (Len(parts) > 1 => is_dir(fs, e)) } }

\* root_path.rglob(pattern_str)
rglob(fs, pattern_str) ==
    IF PathOf(pattern_str) = << >> THEN {}
    ELSE GlobFrom(fs, << >>, << DoubleStar >> \o PathOf(pattern_str))

\* _is_relative_to(found_path, root_path): what rglob finds lies under the root
is_relative_to_root(found_path) == TRUE

\* matched_paths: the glob, or the literal file when the glob finds nothing
matched_paths_of(fs, pattern_str) ==
    LET matched == rglob(fs, pattern_str)
        literal_path == PathOf(pattern_str)
    IN  IF matched # {} THEN matched
        ELSE IF is_file(fs, literal_path) THEN { literal_path }
        ELSE {}

\* the inner loop without the is_file() test: the mutant of surviving_files
surviving_entries(fs, gitignore_spec, pattern_str) ==
    { found_path \in matched_paths_of(fs, pattern_str) :
        /\ is_relative_to_root(found_path)
        /\ ~(gitignore_spec # << >> /\ match_file(gitignore_spec, as_posix(found_path))) }

\* the inner loop: the matched regular files that the ignore rules keep
surviving_files(fs, gitignore_spec, pattern_str) ==
    { found_path \in matched_paths_of(fs, pattern_str) :
        /\ is_file(fs, found_path)
        /\ is_relative_to_root(found_path)
        /\ ~(gitignore_spec # << >> /\ match_file(gitignore_spec, as_posix(found_path))) }

Notice(kind, pattern_str, n) == [ kind |-> kind, pattern |-> pattern_str, n |-> n ]

\* a notice for every pattern without a surviving file: the mutant of
\* pattern_notices
pattern_notices_always(fs, gitignore_spec, pattern_str) ==
    IF Cardinality(surviving_files(fs, gitignore_spec, pattern_str)) > 0
    THEN << Notice("matched", pattern_str,
                   Cardinality(surviving_files(fs, gitignore_spec, pattern_str))) >>
    ELSE << Notice("info", pattern_str, 0) >>

\* what one pass of the outer loop reports: the Info line when nothing at all
\* was matched, the "matched N file(s)" line when a file survived
pattern_notices(fs, gitignore_spec, pattern_str) ==
    LET nothing == /\ rglob(fs, pattern_str) = {}
                   /\ ~is_file(fs, PathOf(pattern_str))
        pattern_matched_files_count ==
            Cardinality(surviving_files(fs, gitignore_spec, pattern_str))
    IN  (IF nothing THEN << Notice("info", pattern_str, 0) >> ELSE << >>)
        \o (IF pattern_matched_files_count > 0
            THEN << Notice("matched", pattern_str, pattern_matched_files_count) >>
            ELSE << >>)

\* the outer loop over enumerate(codes_patterns)
RECURSIVE ValidateLoop(_, _, _, _, _)
ValidateLoop(fs, gitignore_spec, codes_patterns, idx, acc) ==
    IF idx > Len(codes_patterns) THEN acc
    ELSE LET pattern_str == codes_patterns[idx]
         IN  IF pattern_str = << >>
             THEN ValidateLoop(fs, gitignore_spec, codes_patterns, idx + 1,
                      [ acc EXCEPT !.notices = @ \o << Notice("skipped", << >>, idx) >> ])
             ELSE LET survivors == surviving_files(fs, gitignore_spec, pattern_str)
                  IN  ValidateLoop(fs, gitignore_spec, codes_patterns, idx + 1,
                          [ found   |-> acc.found \cup survivors,
                            notices |-> acc.notices
                                        \o pattern_notices(fs, gitignore_spec,
                                                           pattern_str),
                            any     |-> acc.any \/ survivors # {} ])

\* validate_paths: the sorted list of files and the notices it printed
validate_paths(fs, codes_patterns, gitignore_spec) ==
    LET done == ValidateLoop(fs, gitignore_spec, codes_patterns, 1,
                             [ found |-> {}, notices |-> << >>, any |-> FALSE ])
    IN  [ codes   |-> sorted_paths(done.found),
          notices |-> done.notices
                      \o (IF ~done.any /\ codes_patterns # << >>
                          THEN << Notice("warning", << >>, 0) >> ELSE << >>) ]

(***************************************************************************)
(* main.py: run.  What run raises, and the exit status its handlers give.  *)
(***************************************************************************)
ExitOk == 0
ExitConfig == 1
ExitWrite == 2
ExitUnexpected == 3

\* parse_gitignore(root): the permanent rule and the rules of .gitignore
parse_gitignore(gitignore_file) ==
    from_lines(<< GitDirRule >> \o patterns_str(parse_ignore_file(gitignore_file)))

ConfigKinds == { "ok", "unreadable_yaml", "bad_structure", "root_missing" }

ErrorSites == { "none", "validate_paths", "generate_tree" }

\* the exception that reaches the handlers of run
run_raised(config, error_site, write_ok) ==
    IF config \in { "unreadable_yaml", "bad_structure" } THEN "BadParameter"
    ELSE IF config = "root_missing" THEN "BadParameter"
    ELSE IF error_site = "validate_paths" THEN "BadParameter"
    ELSE IF error_site = "generate_tree" THEN "Exception"
    ELSE IF ~write_ok THEN "Exit"
    ELSE "none"

\* click.exceptions.Exit derives from RuntimeError, BadParameter from
\* ClickException: each is an Exception
IsException(raised) == raised \in { "BadParameter", "Exception", "Exit" }

\* the handlers of run: except typer.BadParameter, then except Exception
exit_status(raised) ==
    IF raised = "none" THEN ExitOk
    ELSE IF raised = "BadParameter" THEN ExitConfig
    ELSE IF IsException(raised) THEN ExitUnexpected
    ELSE ExitWrite

\* the class of the failure that ended the run
failure_class(config, error_site, write_ok) ==
    IF config # "ok" THEN "config"
    ELSE IF error_site # "none" THEN "unexpected"
    ELSE IF ~write_ok THEN "write"
    ELSE "none"

(***************************************************************************)
(* The inputs: the files that may lie under the root and the lines that    *)
(* may stand in an ignore file.                                            *)
(***************************************************************************)
DotGit   == << ".", "g", "i", "t" >>
Config   == << "c", "o", "n", "f", "i", "g" >>
Build    == << "b", "u", "i", "l", "d" >>
Out      == << "o", "u", "t" >>
KeepLog  == << "k", "e", "e", "p", ".", "l", "o", "g" >>
OtherLog == << "o", "t", "h", "e", "r", ".", "l", "o", "g" >>
BuildMd  == << "b", "u", "i", "l", "d", ".", "m", "d" >>
ReadmeUp == << "R", "E", "A", "D", "M", "E" >>
ReadmeLo == << "r", "e", "a", "d", "m", "e" >>

CandidateFiles ==
    { << DotGit, Config >>, << Build, KeepLog >>, << Build, Out, OtherLog >>,
      << KeepLog >>, << BuildMd >>, << ReadmeUp >>, << ReadmeLo >> }

StarLog    == << "*", ".", "l", "o", "g" >>
NotKeepLog == << "!" >> \o KeepLog

CandidateLines == { StarLog, NotKeepLog, Build }

\* the most files under the root
MaxFiles == 2

\* the most lines in the two ignore files together
MaxLines == 2

\* the most patterns under the key codes of the configuration
MaxCodes == 2

SeqsUpTo(S, n) == UNION { [ 1..k -> S ] : k \in 0..n }

AbsentFile == [ present |-> FALSE, readable |-> FALSE, lines |-> << >> ]

UnreadableFile == [ present |-> TRUE, readable |-> FALSE, lines |-> << >> ]

ReadableFiles(lines) ==
    { [ present |-> TRUE, readable |-> TRUE, lines |-> ls ] :
        ls \in SeqsUpTo(lines, MaxLines) }

IgnoreFiles == { AbsentFile } \cup ReadableFiles(CandidateLines)

\* the inputs of the command: a root with a bracketed file name, so that a
\* pattern can name a file that its own glob does not match
BracketX == << "[", "x", "]" >>
JustX    == << "x" >>

RunCandidateFiles ==
    { << DotGit, Config >>, << Build, KeepLog >>, << KeepLog >>,
      << BracketX >>, << JustX >> }

RunCandidateLines == { StarLog, NotKeepLog }

\* a repeated line adds no rule: the ignore files of the command hold each
\* line once
RunIgnoreFiles ==
    { AbsentFile, UnreadableFile }
    \cup { f \in ReadableFiles(RunCandidateLines) :
             \A i \in 1..Len(f.lines), j \in 1..Len(f.lines) :
                 f.lines[i] = f.lines[j] => i = j }

CandidateCodes == { StarLog, Build, as_posix(<< DotGit, Config >>), BracketX }

NoRun == [ config |-> "ok", error_site |-> "none", write_ok |-> TRUE ]

\* what the environment decides for one run: the state of the configuration,
\* where an unforeseen exception is raised, whether the output can be written
RunEnvs ==
    { [ config |-> c, error_site |-> "none", write_ok |-> TRUE ] :
        c \in ConfigKinds }
    \cup { [ config |-> "ok", error_site |-> e, write_ok |-> TRUE ] : e \in ErrorSites }
    \cup { [ config |-> "ok", error_site |-> "none", write_ok |-> FALSE ] }

VARIABLES
    files,          \* the regular files under the root
    gitignore,      \* the file .gitignore
    pagrignore,     \* the file .pagrignore
    unlistable,     \* the directories whose listing fails
    fault,          \* what happened to one file after the scan
    pc,             \* how far the run is
    combined_spec,  \* the PatternSet
    tree_lines,     \* the result of generate_tree
    included,       \* the result of scan_and_filter_files
    aggregated,     \* the result of aggregate_codes
    codes,          \* the patterns under the key codes
    run_env,        \* what the environment decided for the run
    validated,      \* the list validate_paths returned
    notices,        \* the notices validate_paths printed
    exit_code       \* the exit status of the command

vars ==
    << files, gitignore, pagrignore, unlistable, fault, pc, combined_spec,
       tree_lines, included, aggregated, codes, run_env, validated, notices,
       exit_code >>

InitOutputs ==
    /\ unlistable = {}
    /\ fault = NoFault
    /\ pc = "start"
    /\ combined_spec = << >>
    /\ tree_lines = << >>
    /\ included = << >>
    /\ aggregated = << >>
    /\ codes = << >>
    /\ run_env = NoRun
    /\ validated = << >>
    /\ notices = << >>
    /\ exit_code = ExitOk

Init ==
    /\ files \in { fs \in SUBSET CandidateFiles : Cardinality(fs) <= MaxFiles }
    /\ gitignore \in IgnoreFiles
    /\ pagrignore \in IgnoreFiles
    /\ Len(gitignore.lines) + Len(pagrignore.lines) <= MaxLines
    /\ InitOutputs

\* load_combined_ignore_spec(root_dir)
LoadIgnore ==
    /\ pc = "start"
    /\ combined_spec' = load_combined_ignore_spec(gitignore, pagrignore)
    /\ pc' = "loaded"
    /\ UNCHANGED << files, gitignore, pagrignore, unlistable, fault, tree_lines,
                    included, aggregated, codes, run_env, validated, notices,
                    exit_code >>

\* generate_tree(root_dir, combined_ignore_spec)
GenerateTree ==
    /\ pc = "loaded"
    /\ \E order \in EnumOrders :
          tree_lines' = generate_tree(files, combined_spec, unlistable, order)
    /\ pc' = "tree"
    /\ UNCHANGED << files, gitignore, pagrignore, unlistable, fault,
                    combined_spec, included, aggregated, codes, run_env,
                    validated, notices, exit_code >>

\* scan_and_filter_files(root_dir, combined_ignore_spec)
Scan ==
    /\ pc = "tree"
    /\ included' = scan_and_filter_files(files, combined_spec)
    /\ pc' = "scanned"
    /\ UNCHANGED << files, gitignore, pagrignore, unlistable, fault,
                    combined_spec, tree_lines, aggregated, codes, run_env,
                    validated, notices, exit_code >>

\* aggregate_codes(root_dir, relative_paths); before or while it runs the
\* environment may have removed one listed file or made it unreadable
Aggregate ==
    /\ pc = "scanned"
    /\ \E flt \in { NoFault }
                   \cup [ path : { included[i] : i \in 1..Len(included) },
                          kind : FaultKinds ] :
          /\ fault' = flt
          /\ aggregated' = aggregate_codes(files, flt, included)
    /\ pc' = "aggregated"
    /\ UNCHANGED << files, gitignore, pagrignore, unlistable, combined_spec,
                    tree_lines, included, codes, run_env, validated, notices,
                    exit_code >>

Next ==
    \/ LoadIgnore
    \/ GenerateTree
    \/ Scan
    \/ Aggregate

Spec == Init /\ [][Next]_vars

(***************************************************************************)
(* The command run of main.py, from its start to its exit status.          *)
(***************************************************************************)
InitRun ==
    /\ files \in { fs \in SUBSET RunCandidateFiles : Cardinality(fs) <= MaxFiles }
    /\ gitignore \in RunIgnoreFiles
    /\ pagrignore = AbsentFile
    /\ InitOutputs

\* run(config_path, output_path): the whole command
RunCommand ==
    /\ pc = "start"
    /\ LET gitignore_spec == parse_gitignore(gitignore)
       IN  \E tree_output \in
                 { [ o \in EnumOrders |->
                       generate_tree(files, gitignore_spec, unlistable, o) ] } :
           \E cs \in SeqsUpTo(CandidateCodes, MaxCodes) :
               \E config \in { validate_paths(files, cs, gitignore_spec) } :
               \E code_output \in { aggregate_codes(files, NoFault, config.codes) } :
               \E env \in RunEnvs, order \in EnumOrders :
                   LET reached_validate == env.config \in { "ok", "root_missing" }
                       passed_validate ==
                           env.config = "ok" /\ env.error_site # "validate_paths"
                       passed_tree ==
                           passed_validate /\ env.error_site # "generate_tree"
                   IN  /\ (env.config # "ok" => cs = << >>)
                       /\ run_env' = env
                       /\ codes' = cs
                       /\ combined_spec' =
                             IF reached_validate THEN gitignore_spec ELSE << >>
                       /\ validated' = IF passed_validate THEN config.codes ELSE << >>
                       /\ notices' = IF passed_validate THEN config.notices ELSE << >>
                       /\ tree_lines' =
                             IF passed_tree THEN tree_output[order] ELSE << >>
                       /\ aggregated' = IF passed_tree THEN code_output ELSE << >>
                       /\ exit_code' =
                             exit_status(run_raised(env.config, env.error_site,
                                                    env.write_ok))
    /\ pc' = "exited"
    /\ UNCHANGED << files, gitignore, pagrignore, unlistable, fault, included >>

NextRun == RunCommand

SpecRun == InitRun /\ [][NextRun]_vars

(***************************************************************************)
(* The loading of the ignore files alone, over files that are absent,      *)
(* unreadable, empty, blank, padded, commented or hold a line that         *)
(* pathspec rejects.                                                       *)
(***************************************************************************)
Bang       == << "!" >>
BlankLine  == << " " >>
Comment    == << "#", "x" >>
PaddedStar == << " " >> \o StarLog \o << " " >>

LoadCandidateLines == { StarLog, NotKeepLog, Bang, BlankLine, Comment, PaddedStar }

LoadIgnoreFiles ==
    { AbsentFile, UnreadableFile } \cup ReadableFiles(LoadCandidateLines)

InitLoad ==
    /\ files = { << KeepLog >>, << OtherLog >> }
    /\ gitignore \in LoadIgnoreFiles
    /\ pagrignore \in LoadIgnoreFiles
    /\ Len(gitignore.lines) + Len(pagrignore.lines) <= MaxLines
    /\ InitOutputs

NextLoad == LoadIgnore

SpecLoad == InitLoad /\ [][NextLoad]_vars

(***************************************************************************)
(* The rendering of the tree over roots in which the listing of some       *)
(* directories fails (iterdir raises).                                     *)
(***************************************************************************)
TreeCandidateLines == { Build, StarLog }

TreeIgnoreFiles ==
    { AbsentFile }
    \cup { f \in ReadableFiles(TreeCandidateLines) :
             \A i \in 1..Len(f.lines), j \in 1..Len(f.lines) :
                 f.lines[i] = f.lines[j] => i = j }

\* the root is the empty path
RootDir == << >>

InitTree ==
    /\ files \in { fs \in SUBSET CandidateFiles : Cardinality(fs) <= MaxFiles }
    /\ gitignore \in TreeIgnoreFiles
    /\ pagrignore = AbsentFile
    /\ unlistable \in SUBSET ({ RootDir } \cup DirsOf(files))
    /\ fault = NoFault
    /\ pc = "start"
    /\ combined_spec = << >>
    /\ tree_lines = << >>
    /\ included = << >>
    /\ aggregated = << >>
    /\ codes = << >>
    /\ run_env = NoRun
    /\ validated = << >>
    /\ notices = << >>
    /\ exit_code = ExitOk

NextTree ==
    \/ LoadIgnore
    \/ GenerateTree

SpecTree == InitTree /\ [][NextTree]_vars
(***************************************************************************)
(* Properties of the walks of logic.py, under Spec.                        *)
(***************************************************************************)
\* generate_tree has just returned
TreeDone == pc = "tree"

\* scan_and_filter_files has just returned, after generate_tree
ScanDone == pc = "scanned"

IncludedSet == { included[i] : i \in 1..Len(included) }

EntryLines == { i \in 1..Len(tree_lines) : tree_lines[i].kind = "entry" }

Parent(path) == SubSeq(path, 1, Len(path) - 1)

IsBeneath(path, dir) == Len(path) > Len(dir) /\ SubSeq(path, 1, Len(dir)) = dir

\* pairs of lines of one directory, the first printed above the second
SiblingPairs ==
    { pair \in EntryLines \X EntryLines :
        /\ pair[1] < pair[2]
        /\ Parent(tree_lines[pair[1]].path) = Parent(tree_lines[pair[2]].path) }

\* C1: with no .gitignore and no .pagrignore, the scan returns no path whose
\* first component is .git and the tree has no line for .git or for an entry
\* beneath it
C1_GitDirExcluded ==
    (~gitignore.present /\ ~pagrignore.present) =>
        /\ ScanDone => \A i \in 1..Len(included) : included[i][1] # DotGit
        /\ TreeDone => \A i \in EntryLines : tree_lines[i].path[1] # DotGit

\* the index of the last rule of the PatternSet that matches the path, or 0
LastMatching(patterns, path_str) ==
    LET hits == { i \in 1..Len(patterns) : RuleMatches(patterns[i], path_str) }
    IN  IF hits = {} THEN 0 ELSE CHOOSE i \in hits : \A k \in hits : k <= i

\* C2: the verdict of the Matcher for a path is that of the last rule that
\* matches it (ignored for a plain rule, kept for a negation), a path no rule
\* matches is kept; under "*.log", "!keep.log" keep.log is kept and other.log
\* is ignored, and the scan returns what the verdict keeps
C2_LastMatchingRuleWins ==
    /\ pc = "loaded" =>
        /\ \A e \in EntriesOf(files) :
              LET last == LastMatching(combined_spec, as_posix(e))
              IN  match_file(combined_spec, as_posix(e))
                    = (last # 0 /\ combined_spec[last].pattern[1] # "!")
        /\ ~match_file(from_lines(<< StarLog, NotKeepLog >>), KeepLog)
        /\ match_file(from_lines(<< StarLog, NotKeepLog >>), OtherLog)
    /\ ScanDone =>
        \A f \in files :
           LET last == LastMatching(combined_spec, as_posix(f))
           IN  (f \in IncludedSet) = (last = 0 \/ combined_spec[last].pattern[1] = "!")

\* C2 witness: .gitignore holds "*.log" and "!keep.log", keep.log and an
\* other.log lie under the root and the scan returned keep.log alone
C2_Witness ==
    /\ ScanDone
    /\ gitignore.lines = << StarLog, NotKeepLog >>
    /\ files = { << KeepLog >>, << Build, Out, OtherLog >> }
    /\ included = << << KeepLog >> >>

\* C3: no file beneath a directory that the Matcher excludes is returned by
\* the scan, whatever negation matches the file
C3_ExcludedDirectoryHidesFiles ==
    ScanDone =>
        \A d \in DirsOf(files) :
           match_file(combined_spec, as_posix(d)) =>
               \A f \in IncludedSet : ~IsBeneath(f, d)

\* the files the tree lists
TreeFiles == { tree_lines[i].path : i \in { k \in EntryLines : is_file(files, tree_lines[k].path) } }

\* C4: the tree lists a file exactly when the scan returns it
C4_TreeAndScanAgree ==
    ScanDone => TreeFiles = IncludedSet

\* C5 as claimed: the scan result is strictly increasing in the order of the
\* forward-slash path strings
C5_SortedByPathString ==
    ScanDone =>
        \A i \in 1..Len(included), j \in 1..Len(included) :
           i < j => StrLess(as_posix(included[i]), as_posix(included[j]))

\* C5: the scan result has no duplicate and is strictly increasing in the
\* order of the paths, which compares them component by component
C5_SortedByPathParts ==
    ScanDone =>
        \A i \in 1..Len(included), j \in 1..Len(included) :
           i < j => (included[i] # included[j] /\ PartsLess(included[i], included[j]))

\* C5 witness: a scan that returned a file of build/ and the file build.md,
\* where the two orders differ
C5_Witness ==
    /\ ScanDone
    /\ included = << << Build, KeepLog >>, << BuildMd >> >>

\* a name with its capital letters replaced by small ones
CaseFolded(name) == [ k \in 1..Len(name) |-> LowerTable[name[k]] ]

\* C6 as claimed: in every directory of the tree the files stand before the
\* directories, each group in case-insensitive name order
C6_FilesBeforeDirectories ==
    TreeDone =>
        \A pair \in SiblingPairs :
           LET a == tree_lines[pair[1]].path
               b == tree_lines[pair[2]].path
           IN  IF is_file(files, a) = is_file(files, b)
               THEN StrLeq(CaseFolded(Basename(a)), CaseFolded(Basename(b)))
               ELSE is_file(files, a)

\* C6: in every directory of the tree the directories stand before the
\* files, each group in case-insensitive name order
C6_DirectoriesBeforeFiles ==
    TreeDone =>
        \A pair \in SiblingPairs :
           LET a == tree_lines[pair[1]].path
               b == tree_lines[pair[2]].path
           IN  IF is_file(files, a) = is_file(files, b)
               THEN StrLeq(CaseFolded(Basename(a)), CaseFolded(Basename(b)))
               ELSE is_dir(files, a)

\* C6 witness: a tree whose root lists a directory above a file
C6_Witness ==
    /\ TreeDone
    /\ \E pair \in SiblingPairs :
          /\ is_dir(files, tree_lines[pair[1]].path)
          /\ is_file(files, tree_lines[pair[2]].path)

\* C7: aggregate_codes emits one block per input path, in input order, and
\* the block of a path that is missing or cannot be read is its header with
\* an error notice
C7_OneBlockPerPath ==
    pc = "aggregated" =>
        /\ Len(aggregated) = Len(included)
        /\ \A i \in 1..Len(aggregated) :
              /\ i <= Len(included)
              /\ aggregated[i].header = as_posix(included[i])
              /\ (FaultOf(fault, included[i]) # "none") = (aggregated[i].kind = "error")

(***************************************************************************)
(* Properties of the command, under SpecRun.                               *)
(***************************************************************************)
Exited == pc = "exited"

RunFailure == failure_class(run_env.config, run_env.error_site, run_env.write_ok)

\* validate_paths returned to run
Validated == Exited /\ run_env.config = "ok" /\ run_env.error_site # "validate_paths"

\* C8: the exit status names the class of the failure: 1 for the
\* configuration, 2 for the output destination, 3 for anything else
C8_ExitStatusPerClass ==
    Exited =>
        /\ RunFailure = "config" => exit_code = ExitConfig
        /\ RunFailure = "write" => exit_code = ExitWrite
        /\ RunFailure = "unexpected" => exit_code = ExitUnexpected
        /\ RunFailure = "none" => exit_code = ExitOk

ValidatedSet == { validated[i] : i \in 1..Len(validated) }

\* the files a pattern asks for: what its glob matches or, when the glob
\* matches nothing, the path it names
GlobOrLiteral(globbed, pattern_str) ==
    IF globbed # {} THEN globbed ELSE { PathOf(pattern_str) }

AskedFor(pattern_str) == GlobOrLiteral(rglob(files, pattern_str), pattern_str)

\* the files the Matcher keeps
KeptFiles == { f \in files : ~match_file(combined_spec, as_posix(f)) }

\* C9: validate_paths returns, sorted and without duplicate, exactly the
\* regular files that the Matcher keeps and that some pattern matches as a
\* recursive glob or, its glob matching nothing, names literally; never a
\* directory, never a file the ignore rules exclude
C9_ResolvedFiles ==
    Validated =>
        /\ ValidatedSet =
              KeptFiles \cap UNION { AskedFor(codes[i]) : i \in 1..Len(codes) }
        /\ Len(validated) = Cardinality(ValidatedSet)
        /\ \A i \in 1..Len(validated), j \in 1..Len(validated) :
              i < j => PartsLess(validated[i], validated[j])
        /\ \A p \in ValidatedSet :
              ~is_dir(files, p) /\ ~match_file(combined_spec, as_posix(p))

\* C9 witness: the pattern "[x]" named the file [x] that its glob does not
\* match, the pattern "build" matched a directory only
C9_Witness ==
    /\ Validated
    /\ files = { << BracketX >>, << Build, KeepLog >> }
    /\ codes = << BracketX, Build >>
    /\ validated = << << BracketX >> >>

InfoNamed == { notices[i].pattern : i \in { k \in 1..Len(notices) : notices[k].kind = "info" } }

NoticeNamed ==
    { notices[i].pattern :
        i \in { k \in 1..Len(notices) : notices[k].kind \in { "info", "matched" } } }

\* the files of the result that a pattern contributed
Contribution(pattern_str) == KeptFiles \cap AskedFor(pattern_str)

\* C10 as claimed: every pattern that contributes no file is named by a
\* notice
C10_NoticePerEmptyPattern ==
    Validated =>
        \A i \in 1..Len(codes) :
           Contribution(codes[i]) = {} => codes[i] \in NoticeNamed

\* C10: a notice names a pattern without contribution exactly when the
\* pattern matched nothing at all (no file, no directory, no literal file);
\* a pattern that matched only directories or only ignored files is not
\* named; the resolution does not fail and returns what the other patterns
\* contributed
C10_NoticeWhenNothingMatched ==
    Validated =>
        /\ \E kept \in { KeptFiles } :
           \A i \in 1..Len(codes) :
              \E globbed \in { rglob(files, codes[i]) } :
              \E contribution \in { kept \cap GlobOrLiteral(globbed, codes[i]) } :
                 /\ (codes[i] \in InfoNamed)
                       = (globbed = {} /\ PathOf(codes[i]) \notin files)
                 /\ contribution = {} =>
                       ((codes[i] \in NoticeNamed) = (codes[i] \in InfoNamed))
                 /\ contribution \subseteq ValidatedSet
        /\ run_env.error_site = "none" => exit_code # ExitConfig

\* C10 witness: "build" matched a directory only and got no notice, "*.log"
\* still contributed keep.log
C10_Witness ==
    /\ Validated
    /\ files = { << Build, KeepLog >>, << KeepLog >> }
    /\ codes = << Build, StarLog >>
    /\ validated = << << Build, KeepLog >>, << KeepLog >> >>
    /\ Build \notin NoticeNamed

\* C11: the outputs do not depend on the order in which the operating system
\* enumerates a directory: the tree text written is the one every
\* enumeration order gives, also for names that differ only in letter case
C11_EnumerationOrderIrrelevant ==
    TreeDone =>
        \A order \in EnumOrders :
           tree_lines = generate_tree(files, combined_spec, unlistable, order)


\* load_combined_ignore_spec has just returned
Loaded == pc = "loaded"

\* the pattern strings of the PatternSet, in its order
LoadedPatterns == [ i \in 1..Len(combined_spec) |-> combined_spec[i].pattern ]

\* the lines of an ignore file that name something: stripped, not blank
NonBlankLines(file) ==
    SelectSeq([ i \in 1..Len(file.lines) |-> Strip(file.lines[i]) ],
              LAMBDA line : line # << >>)

\* a line that pathspec accepts; of the lines written here it rejects the
\* negation of nothing, a lone "!"
WellFormed(line) == line # Bang

\* a line that is a rule: well formed and not a comment
IsRule(line) == WellFormed(line) /\ line[1] # "#"

\* C12 as claimed: only an absent, empty or unreadable file contributes no
\* rule; every other file contributes its rules, in file order
ClaimedRules(file) ==
    IF ~file.present \/ ~file.readable THEN << >>
    ELSE SelectSeq(NonBlankLines(file), IsRule)

C12_ZeroRulesOnlyWithoutSource ==
    Loaded =>
        SelectSeq(LoadedPatterns, IsRule)
            = << GitDirRule >> \o ClaimedRules(gitignore) \o ClaimedRules(pagrignore)

\* what an ignore file contributes: nothing when it is absent, unreadable,
\* without a non-blank line, or holds a line that pathspec rejects; else its
\* stripped non-blank lines (comments among them), in file order
ContributedLines(file) ==
    IF ~file.present \/ ~file.readable THEN << >>
    ELSE IF \E i \in 1..Len(NonBlankLines(file)) : ~WellFormed(NonBlankLines(file)[i])
    THEN << >>
    ELSE NonBlankLines(file)

\* C12: the PatternSet is the '.git/' rule, then what .gitignore contributes,
\* then what .pagrignore contributes; the build never fails; a path that a
\* rule of .pagrignore matches gets the verdict of .pagrignore, whatever
\* .gitignore says
C12_GitThenGitignoreThenPagrignore ==
    Loaded =>
        /\ LoadedPatterns
              = << GitDirRule >> \o ContributedLines(gitignore)
                                \o ContributedLines(pagrignore)
        /\ \A f \in files :
              LET own == from_lines(ContributedLines(pagrignore))
              IN  LastMatching(own, as_posix(f)) # 0 =>
                     match_file(combined_spec, as_posix(f))
                         = match_file(own, as_posix(f))

\* C12 witness: .gitignore ignores *.log, .pagrignore takes keep.log back
C12_Witness ==
    /\ Loaded
    /\ gitignore.lines = << StarLog >>
    /\ pagrignore.lines = << NotKeepLog >>
    /\ LoadedPatterns = << GitDirRule, StarLog, NotKeepLog >>
    /\ ~match_file(combined_spec, KeepLog)
    /\ match_file(combined_spec, OtherLog)


\* the entry line of the directory that holds the entry of line i, or 0 for
\* an entry of the root
ParentLine(i) ==
    IF Len(tree_lines[i].path) = 1 THEN 0
    ELSE CHOOSE j \in EntryLines : tree_lines[j].path = Parent(tree_lines[i].path)

\* line i is the last listed entry of its directory
LastOfDirectory(i) ==
    \A j \in EntryLines :
       (j > i) => Parent(tree_lines[j].path) # Parent(tree_lines[i].path)

\* C13: in every rendered directory the last listed entry carries the corner
\* glyph and every other listed entry the branch glyph; the lines beneath a
\* listed directory carry its prefix plus the pipe continuation when the
\* directory has the branch glyph, plus four spaces when it has the corner
C13_GlyphsAndPrefixes ==
    TreeDone =>
        \A i \in EntryLines :
           /\ tree_lines[i].pointer
                 = (IF LastOfDirectory(i) THEN Corner ELSE Branch)
           /\ IF ParentLine(i) = 0
              THEN tree_lines[i].prefix = << >>
              ELSE tree_lines[i].prefix
                     = Append(tree_lines[ParentLine(i)].prefix,
                              IF tree_lines[ParentLine(i)].pointer = Branch
                              THEN Pipe ELSE Blank)

\* C13 witness: build/ is the only entry of the root and holds out/ above
\* keep.log, so other.log lies under four spaces and a pipe
C13_Witness ==
    /\ TreeDone
    /\ files = { << Build, KeepLog >>, << Build, Out, OtherLog >> }
    /\ Len(tree_lines) = 5
    /\ tree_lines[2].pointer = Corner /\ tree_lines[2].path = << Build >>
    /\ tree_lines[3].pointer = Branch /\ tree_lines[3].path = << Build, Out >>
    /\ tree_lines[4].prefix = << Blank, Pipe >>
    /\ tree_lines[5].pointer = Corner /\ tree_lines[5].prefix = << Blank >>


ErrorLines == { i \in 1..Len(tree_lines) : tree_lines[i].kind = "error" }

\* the directory has a line of its own: the root line or an entry line
Rendered(dir) == \E i \in 1..Len(tree_lines) :
                    tree_lines[i].kind # "error" /\ tree_lines[i].path = dir

\* the lines of a tree that do not lie beneath a directory whose listing
\* fails
OutsideFailures(lines) ==
    SelectSeq(lines, LAMBDA l : \A d \in unlistable : ~IsBeneath(l.path, d))

\* C14: with failing listings the tree is the tree of the same root without
\* failure, less the lines beneath the failing directories, each line as it
\* was and in the same order; every failing directory that is rendered keeps
\* its own line, followed at once by exactly one error marker line, and no
\* other marker is written
C14_ErrorMarkerInPlaceOfChildren ==
    TreeDone =>
        /\ \E order \in EnumOrders :
              SelectSeq(tree_lines, LAMBDA l : l.kind # "error")
                 = OutsideFailures(generate_tree(files, combined_spec, {}, order))
        /\ \A i \in ErrorLines :
              /\ tree_lines[i].path \in unlistable
              /\ i > 1
              /\ tree_lines[i - 1].kind # "error"
              /\ tree_lines[i - 1].path = tree_lines[i].path
        /\ \A d \in unlistable :
              Rendered(d) =>
                 Cardinality({ i \in ErrorLines : tree_lines[i].path = d }) = 1

\* C14 witness: build/ cannot be listed; its line is followed by the marker
\* and the sibling keep.log is still rendered after it
C14_Witness ==
    /\ TreeDone
    /\ files = { << Build, KeepLog >>, << KeepLog >> }
    /\ unlistable = { << Build >> }
    /\ Len(tree_lines) = 4
    /\ tree_lines[2].path = << Build >> /\ tree_lines[2].kind = "entry"
    /\ tree_lines[3].kind = "error"
    /\ tree_lines[4].path = << KeepLog >>
====
